---- MODULE Spec2Model ----
(***************************************************************************)
(* A model of pyproto.converter.ProtoConverter: the construction-time      *)
(* analysis (handler discovery, unhandled-field computation, oneof         *)
(* validation) and the call-time conversion (type check, automatic field   *)
(* copy, handler invocation).                                              *)
(*                                                                         *)
(* Descriptors are records.  A message type is identified by its name in   *)
(* MessageTypes; descriptor identity (==) is equality of that name.        *)
(* A field value is a tagged record: "unset", "scalar", "msg", "any",      *)
(* "list" (repeated), "map", or "handler" (a value a user handler wrote).  *)
(***************************************************************************)
EXTENDS Integers, Sequences, FiniteSets, TLC

VARIABLES
  pb_class_from,                 \* self._pb_class_from   (a schema record)
  pb_class_to,                   \* self._pb_class_to
  field_names_to_ignore,         \* self._field_names_to_ignore (a list)
  class_functions,               \* the decorated methods of self.__class__, in definition order
  function_convert_field_names,  \* self._function_convert_field_names
  convert_functions,             \* self._convert_functions
  unconverted_fields,            \* self._unconverted_fields
  state,                         \* "Unvalidated" | "Ready" | "Failed"
  error,                         \* the exception last raised (NoError if none)
  pc,                            \* position of the current convert call
  src_proto,                     \* argument of the current convert call
  dest_proto,                    \* the destination instance of the current call
  todo,                          \* fields of src_proto.ListFields() still to walk
  written,                       \* destination fields the automatic copy wrote
  func_idx,                      \* index of the next user function to call
  calls,                         \* user functions called in this convert, with what they saw
  result                         \* the value convert returned

vars == <<pb_class_from, pb_class_to, field_names_to_ignore, class_functions,
          function_convert_field_names, convert_functions, unconverted_fields,
          state, error, pc, src_proto, dest_proto, todo, written, func_idx,
          calls, result>>

-----------------------------------------------------------------------------
(* Bounds *)

\* longest repeated field of a source instance
MaxLen == 1
\* most decorated methods on a converter class
MaxHandlers == 2

-----------------------------------------------------------------------------
(* google.protobuf.descriptor.FieldDescriptor constants *)

LABEL_OPTIONAL == "LABEL_OPTIONAL"
LABEL_REPEATED == "LABEL_REPEATED"
TYPE_INT32 == "TYPE_INT32"
TYPE_FLOAT == "TYPE_FLOAT"
TYPE_STRING == "TYPE_STRING"
TYPE_BYTES == "TYPE_BYTES"
TYPE_ENUM == "TYPE_ENUM"
TYPE_MESSAGE == "TYPE_MESSAGE"

\* message_type of a field that is not a message
NoMessage == "none"

FD(n, l, t, m) == [name |-> n, label |-> l, type |-> t, message_type |-> m]

\* any_pb2.DESCRIPTOR.message_types_by_name["Any"]
AnyType == "google.protobuf.Any"

\* The nested message types of the schemas: fields_by_name and the
\* map_entry option of each.  Pair is an ordinary message that happens to
\* have fields called key and value.
MessageTypes ==
  [t \in {AnyType, "Topping", "Syrup", "Pair", "IntEntry", "ToppingEntry", "AnyEntry"} |->
    CASE t = AnyType ->
           [map_entry |-> FALSE,
            fields_by_name |-> [n \in {"type_url", "value"} |->
               IF n = "type_url" THEN FD(n, LABEL_OPTIONAL, TYPE_STRING, NoMessage)
                                 ELSE FD(n, LABEL_OPTIONAL, TYPE_BYTES, NoMessage)]]
      [] t \in {"Topping", "Syrup"} ->
           [map_entry |-> FALSE,
            fields_by_name |-> [n \in {"name"} |-> FD(n, LABEL_OPTIONAL, TYPE_STRING, NoMessage)]]
      [] t \in {"Pair", "IntEntry"} ->
           [map_entry |-> (t = "IntEntry"),
            fields_by_name |-> [n \in {"key", "value"} |->
               IF n = "key" THEN FD(n, LABEL_OPTIONAL, TYPE_STRING, NoMessage)
                            ELSE FD(n, LABEL_OPTIONAL, TYPE_INT32, NoMessage)]]
      [] t = "ToppingEntry" ->
           [map_entry |-> TRUE,
            fields_by_name |-> [n \in {"key", "value"} |->
               IF n = "key" THEN FD(n, LABEL_OPTIONAL, TYPE_STRING, NoMessage)
                            ELSE FD(n, LABEL_OPTIONAL, TYPE_MESSAGE, "Topping")]]
      [] t = "AnyEntry" ->
           [map_entry |-> TRUE,
            fields_by_name |-> [n \in {"key", "value"} |->
               IF n = "key" THEN FD(n, LABEL_OPTIONAL, TYPE_STRING, NoMessage)
                            ELSE FD(n, LABEL_OPTIONAL, TYPE_MESSAGE, AnyType)]]]

\* field_descriptor.message_type.fields_by_name
FieldsOfType(m) == MessageTypes[m].fields_by_name

-----------------------------------------------------------------------------
(* Descriptor predicates *)

_is_any_field(field_descriptor) == field_descriptor.message_type = AnyType

_is_map_field(field_descriptor) ==
  /\ field_descriptor.label = LABEL_REPEATED
  /\ field_descriptor.type = TYPE_MESSAGE
  /\ MessageTypes[field_descriptor.message_type].map_entry

\* A faulty variant: the map branch is never taken, so a map is compared like any
\* other repeated message field.
IsAutoConvertibleNoMapBranch(src_field, dest_proto_fields_by_name) ==
  IF src_field.name \notin DOMAIN dest_proto_fields_by_name THEN FALSE
  ELSE LET dest_field == dest_proto_fields_by_name[src_field.name] IN
    IF dest_field.label # src_field.label \/ src_field.type # dest_field.type THEN FALSE
    ELSE IF src_field.type = TYPE_MESSAGE THEN
      IF _is_any_field(src_field) /\ _is_any_field(dest_field) THEN TRUE
      ELSE IF _is_any_field(src_field) THEN FALSE
      ELSE IF _is_any_field(dest_field) THEN TRUE
      ELSE src_field.message_type = dest_field.message_type
    ELSE TRUE

RECURSIVE _is_src_field_auto_convertible(_, _)
_is_src_field_auto_convertible(src_field, dest_proto_fields_by_name) ==
  IF src_field.name \notin DOMAIN dest_proto_fields_by_name THEN FALSE
  ELSE LET dest_field == dest_proto_fields_by_name[src_field.name] IN
    IF dest_field.label # src_field.label \/ src_field.type # dest_field.type THEN FALSE
    ELSE IF _is_map_field(src_field) THEN
      LET src_fields_by_name == FieldsOfType(src_field.message_type)
          dest_fields_by_name == FieldsOfType(dest_field.message_type)
      IN ~ ( \/ ~ _is_src_field_auto_convertible(src_fields_by_name["key"], dest_fields_by_name)
             \/ ~ _is_src_field_auto_convertible(src_fields_by_name["value"], dest_fields_by_name) )
    ELSE IF src_field.type = TYPE_MESSAGE THEN
      IF _is_any_field(src_field) /\ _is_any_field(dest_field) THEN TRUE
      ELSE IF _is_any_field(src_field) THEN FALSE
      ELSE IF _is_any_field(dest_field) THEN TRUE
      ELSE src_field.message_type = dest_field.message_type
    ELSE TRUE

-----------------------------------------------------------------------------
(* Schemas (message classes) and their descriptors *)

Range(seq) == {seq[i] : i \in DOMAIN seq}

\* Field names of the top-level schemas, in field-number order, and the
\* names of their oneof groups, in declaration order.  protoc rejects a
\* oneof whose name is also a field name of the same message, so the two
\* sets of names are disjoint.
FieldOrder == <<"a", "b">>
OneofOrder == <<"g1", "g2">>
FieldNames == Range(FieldOrder)
OneofNames == Range(OneofOrder)

\* pb_class.DESCRIPTOR.fields: the descriptors in field-number order
DescriptorFields(pb) ==
  LET present == SelectSeq(FieldOrder, LAMBDA n : n \in DOMAIN pb.fields_by_name)
  IN [i \in DOMAIN present |-> pb.fields_by_name[present[i]]]

\* the keys of pb_class.DESCRIPTOR.oneofs_by_name, in declaration order
OneofsOf(pb) == SelectSeq(OneofOrder, LAMBDA g : g \in DOMAIN pb.oneofs_by_name)

-----------------------------------------------------------------------------
(* Exceptions *)

NoError == [type |-> "none"]

UnhandledFieldsError(unconverted) ==
  [type |-> "NotImplementedError", kind |-> "unhandled", fields |-> unconverted]

OneofError(src_oneof_name, proto_name) ==
  [type |-> "NotImplementedError", kind |-> "oneof",
   oneof |-> src_oneof_name, proto |-> proto_name]

TypeMismatchError(src_type, expected_src_type) ==
  [type |-> "TypeError", actual |-> src_type, expected |-> expected_src_type]

-----------------------------------------------------------------------------
(* Construction-time analysis *)

\* A faulty variant: the ignore list is not consulted.
RECURSIVE GetUnhandledFieldsNoIgnore(_, _, _)
GetUnhandledFieldsNoIgnore(src_proto_fields, dest_proto_fields_by_name, ignore) ==
  IF src_proto_fields = <<>> THEN <<>>
  ELSE LET field == Head(src_proto_fields)
           rest == GetUnhandledFieldsNoIgnore(Tail(src_proto_fields),
                                              dest_proto_fields_by_name, ignore)
       IN IF ~ _is_src_field_auto_convertible(field, dest_proto_fields_by_name)
            THEN <<field.name>> \o rest
            ELSE rest

\* A faulty variant: an ignored field ends the loop (break for continue).
RECURSIVE GetUnhandledFieldsBreak(_, _, _)
GetUnhandledFieldsBreak(src_proto_fields, dest_proto_fields_by_name, ignore) ==
  IF src_proto_fields = <<>> THEN <<>>
  ELSE LET field == Head(src_proto_fields)
           rest == GetUnhandledFieldsBreak(Tail(src_proto_fields),
                                           dest_proto_fields_by_name, ignore)
       IN IF field.name \in Range(ignore) THEN <<>>
          ELSE IF ~ _is_src_field_auto_convertible(field, dest_proto_fields_by_name)
            THEN <<field.name>> \o rest
            ELSE rest

RECURSIVE _get_unhandled_fields(_, _, _)
_get_unhandled_fields(src_proto_fields, dest_proto_fields_by_name, ignore) ==
  IF src_proto_fields = <<>> THEN <<>>
  ELSE LET field == Head(src_proto_fields)
           rest == _get_unhandled_fields(Tail(src_proto_fields),
                                         dest_proto_fields_by_name, ignore)
       IN IF field.name \in Range(ignore) THEN rest
          ELSE IF ~ _is_src_field_auto_convertible(field, dest_proto_fields_by_name)
            THEN <<field.name>> \o rest
            ELSE rest

\* field name -> name of the oneof that contains it
_get_fields_to_oneof_dict(oneof_by_name) ==
  LET members == UNION {oneof_by_name[g] : g \in DOMAIN oneof_by_name}
  IN [n \in members |-> CHOOSE g \in DOMAIN oneof_by_name : n \in oneof_by_name[g]]

\* the set mapped_field built for one oneof of src_pb
MappedField(src_oneof_fields, dest_pb, ignored_fields) ==
  LET ignored_fields_set == Range(ignored_fields)
      dest_oneof_dict == _get_fields_to_oneof_dict(dest_pb.oneofs_by_name)
      dest_field_names == DOMAIN dest_pb.fields_by_name
      considered == {n \in src_oneof_fields \ ignored_fields_set :
                       n \in DOMAIN dest_oneof_dict \/ n \in dest_field_names}
  IN {IF n \in DOMAIN dest_oneof_dict THEN dest_oneof_dict[n] ELSE n : n \in considered}

\* A faulty variant: the loop over the oneofs of src_pb never raises.
ValidateOneofNever(src_pb, dest_pb, ignored_fields) == NoError

\* The exception _validate_oneof_field_multi_mapping raises, or NoError:
\* the first oneof of src_pb, in declaration order, that maps to more than
\* one name.
_validate_oneof_field_multi_mapping(src_pb, dest_pb, ignored_fields) ==
  LET names == OneofsOf(src_pb)
      bad == {i \in DOMAIN names :
                Cardinality(MappedField(src_pb.oneofs_by_name[names[i]],
                                        dest_pb, ignored_fields)) > 1}
  IN IF bad = {} THEN NoError
     ELSE LET first == CHOOSE i \in bad : \A j \in bad : i <= j
          IN OneofError(names[first], src_pb.name)

-----------------------------------------------------------------------------
(* The converter class: its attributes and the decorated methods *)

\* The attribute names a converter class can have, in the order dir() lists
\* them: dir() returns the names sorted.
AttrOrder == <<"__doc__", "convert", "convert_a", "convert_b", "convert_none">>

\* The methods a subclass (or a base class it inherits from) can decorate
\* with @convert_field(field_names=...); convert_none uses the default [].
HandlerCatalog ==
  { [name |-> "convert_a", convert_field_names |-> <<"a">>],
    [name |-> "convert_b", convert_field_names |-> <<"b">>],
    [name |-> "convert_none", convert_field_names |-> <<>>] }

\* dir(self.__class__) for a class whose decorated methods are fns
Dir(fns) ==
  SelectSeq(AttrOrder,
            LAMBDA e : e \in {"__doc__", "convert"} \cup {fns[i].name : i \in DOMAIN fns})

\* callable(getattr(self.__class__, entry))
Callable(entry) == entry # "__doc__"

\* hasattr(function, "convert_field_names"): functools.wraps copies the
\* attribute the decorator set onto the wrapper
HasConvertFieldNames(entry, fns) == \E i \in DOMAIN fns : fns[i].name = entry

RECURSIVE Flatten(_)
Flatten(lists) ==
  IF lists = <<>> THEN <<>> ELSE Head(lists) \o Flatten(Tail(lists))

\* A faulty variant: the functions are collected in the order they were defined.
CollectInDefinitionOrder(fns) == fns

\* the loop over dir(self.__class__): self._convert_functions
CollectConvertFunctions(fns) ==
  LET found == SelectSeq(Dir(fns),
                         LAMBDA e : Callable(e) /\ HasConvertFieldNames(e, fns))
  IN [i \in DOMAIN found |-> CHOOSE f \in Range(fns) : f.name = found[i]]

\* self._function_convert_field_names after the loop
CollectFieldNames(fns) ==
  LET cf == CollectConvertFunctions(fns)
  IN Flatten([i \in DOMAIN cf |-> cf[i].convert_field_names])

-----------------------------------------------------------------------------
(* Message instances and the protobuf operations the converter calls *)

Unset == [kind |-> "unset"]
Scalar(v) == [kind |-> "scalar", v |-> v]
Msg(t, body) == [kind |-> "msg", type |-> t, body |-> body]
AnyValue(prefix, type_name, value) ==
  [kind |-> "any", type_url |-> [prefix |-> prefix, type_name |-> type_name],
   value |-> value]
ListValue(items) == [kind |-> "list", items |-> items]
MapValue(entries) == [kind |-> "map", entries |-> entries]
HandlerValue(by) == [kind |-> "handler", by |-> by]

\* Any.Pack's default type_url_prefix
DefaultPrefix == "type.googleapis.com/"

\* message full names symbol_database.Default().pool can resolve
SymbolDatabase == {"Topping", "Syrup", "Pair"}

\* msg.SerializeToString() and proto_class().ParseFromString(), for the
\* one-field messages of the model
SerializeToString(msg) == [bytes |-> msg.body]
ParseFromString(type_name, value) == Msg(type_name, value.bytes)

\* Any.TypeName(): the part of type_url after the last "/"
TypeName(any) == any.type_url.type_name

\* Any.Pack(msg): type_url = default prefix + msg.DESCRIPTOR.full_name
Pack(msg) == AnyValue(DefaultPrefix, msg.type, SerializeToString(msg))

\* lines 172-177: unpack an element into its concrete type, pack it again
Repack(any) == Pack(ParseFromString(TypeName(any), any.value))

MapKeys == {"k1"}

AnyValues ==
  {AnyValue(p, t, [bytes |-> "m1"]) :
     p \in {DefaultPrefix, "example.com/"}, t \in {"Topping", "Unregistered"}}

\* the values one element of a field can take
ElementValues(fd) ==
  IF fd.type # TYPE_MESSAGE THEN {Scalar("v1")}
  ELSE IF _is_any_field(fd) THEN AnyValues
  ELSE {Msg(fd.message_type, "m1")}

SeqsUpTo(S, n) == UNION {[1..k -> S] : k \in 0..n}

\* the values a field of an instance can hold
ValuesOf(fd) ==
  IF _is_map_field(fd)
    THEN LET vals == ElementValues(FieldsOfType(fd.message_type)["value"])
         IN {MapValue(e) : e \in UNION {[K -> vals] : K \in SUBSET MapKeys}}
  ELSE IF fd.label = LABEL_REPEATED
    THEN {ListValue(items) : items \in SeqsUpTo(ElementValues(fd), MaxLen)}
  ELSE {Unset} \cup ElementValues(fd)

\* the value of a field of a freshly constructed message
FreshValue(fd) ==
  IF _is_map_field(fd) THEN MapValue(<<>>)
  ELSE IF fd.label = LABEL_REPEATED THEN ListValue(<<>>)
  ELSE Unset

\* whether ListFields() reports the field
Populated(v) ==
  CASE v.kind = "unset" -> FALSE
    [] v.kind = "list" -> v.items # <<>>
    [] v.kind = "map" -> DOMAIN v.entries # {}
    [] OTHER -> TRUE

RECURSIVE FieldAssignments(_, _)
FieldAssignments(pb, names) ==
  IF names = <<>> THEN {<<>>}
  ELSE {(Head(names) :> v) @@ rest :
          v \in ValuesOf(pb.fields_by_name[Head(names)]),
          rest \in FieldAssignments(pb, Tail(names))}

\* the instances of a message class: at most one member of a oneof is set
Instances(pb) ==
  LET names == SelectSeq(FieldOrder, LAMBDA n : n \in DOMAIN pb.fields_by_name)
  IN {[full_name |-> pb.full_name, fields |-> f] :
        f \in {g \in FieldAssignments(pb, names) :
                 \A o \in DOMAIN pb.oneofs_by_name :
                   Cardinality({n \in pb.oneofs_by_name[o] : Populated(g[n])}) <= 1}}

\* an instance of some other message class
ForeignInstance == [full_name |-> "pkg.Other", fields |-> <<>>]

\* pb_class_to()
FreshInstance(pb) ==
  [full_name |-> pb.full_name,
   fields |-> [n \in DOMAIN pb.fields_by_name |-> FreshValue(pb.fields_by_name[n])]]

\* the names of proto.ListFields(), in field-number order
ListFields(proto) ==
  SelectSeq(FieldOrder, LAMBDA n : n \in DOMAIN proto.fields /\ Populated(proto.fields[n]))

\* writing field n of a message: the other members of its oneof are cleared
SetField(fields, pb, n, v) ==
  [m \in DOMAIN fields |->
     IF m = n THEN v
     ELSE IF \E o \in DOMAIN pb.oneofs_by_name : {m, n} \subseteq pb.oneofs_by_name[o]
       THEN Unset
     ELSE fields[m]]

-----------------------------------------------------------------------------
(* The copy strategies of _auto_convert *)

Copied(v) == [raised |-> "none", value |-> v]
Raised(t) == [raised |-> t, value |-> Unset]

\* dest_field.MergeFrom(src_field) on a map container
MergeMap(dest_entries, src_entries) ==
  [k \in DOMAIN dest_entries \cup DOMAIN src_entries |->
     IF k \in DOMAIN src_entries THEN src_entries[k] ELSE dest_entries[k]]

\* The body of the loop of _auto_convert for one populated field that is
\* neither ignored nor unconverted: the new value of the destination field,
\* or the exception the protobuf runtime raises when the container or the
\* message class of the destination does not fit the strategy.
CopyField(src_fd, dest_fd, src_field, dest_field) ==
  IF _is_map_field(src_fd) THEN
    IF dest_fd.message_type = NoMessage THEN Raised("AttributeError")
    ELSE IF "value" \notin DOMAIN FieldsOfType(dest_fd.message_type) THEN Raised("KeyError")
    ELSE
      LET src_map_value_field_descriptor == FieldsOfType(src_fd.message_type)["value"]
          dest_map_value_field_descriptor == FieldsOfType(dest_fd.message_type)["value"]
      IN IF dest_field.kind # "map" THEN Raised("TypeError")
         ELSE IF /\ _is_any_field(dest_map_value_field_descriptor)
                 /\ ~ _is_any_field(src_map_value_field_descriptor)
           THEN Copied(MapValue(MergeMap(dest_field.entries,
                  [k \in DOMAIN src_field.entries |-> Pack(src_field.entries[k])])))
         ELSE Copied(MapValue(MergeMap(dest_field.entries, src_field.entries)))
  ELSE IF src_fd.label = LABEL_REPEATED THEN
    IF dest_field.kind # "list" THEN Raised("TypeError")
    ELSE IF _is_any_field(src_fd) THEN
      IF \E i \in DOMAIN src_field.items : TypeName(src_field.items[i]) \notin SymbolDatabase
        THEN Raised("KeyError")
      ELSE IF ~ _is_any_field(dest_fd) THEN Raised("AttributeError")
      ELSE Copied(ListValue(dest_field.items \o
                    [i \in DOMAIN src_field.items |-> Repack(src_field.items[i])]))
    ELSE IF _is_any_field(dest_fd) THEN
      Copied(ListValue(dest_field.items \o
               [i \in DOMAIN src_field.items |-> Pack(src_field.items[i])]))
    ELSE IF src_fd.type # dest_fd.type \/ src_fd.message_type # dest_fd.message_type
      THEN Raised("TypeError")
    ELSE Copied(ListValue(dest_field.items \o src_field.items))
  ELSE IF src_fd.type = TYPE_MESSAGE THEN
    IF dest_fd.type # TYPE_MESSAGE \/ dest_fd.label = LABEL_REPEATED
      THEN Raised("AttributeError")
    ELSE IF _is_any_field(dest_fd) /\ ~ _is_any_field(src_fd) THEN Copied(Pack(src_field))
    ELSE IF src_fd.message_type # dest_fd.message_type THEN Raised("TypeError")
    ELSE Copied(src_field)
  ELSE
    IF dest_fd.label = LABEL_REPEATED \/ dest_fd.type = TYPE_MESSAGE
      THEN Raised("AttributeError")
    ELSE IF dest_fd.type # src_fd.type THEN Raised("TypeError")
    ELSE Copied(src_field)

\* A user function of the example: it writes the destination fields it is
\* registered for (those the destination class has).
RECURSIVE UserFuncWrites(_, _, _, _)
UserFuncWrites(fn_name, names, fields, pb) ==
  IF names = <<>> THEN fields
  ELSE LET n == Head(names)
           next == IF n \in DOMAIN fields
                     THEN SetField(fields, pb, n, HandlerValue(fn_name))
                     ELSE fields
       IN UserFuncWrites(fn_name, Tail(names), next, pb)

-----------------------------------------------------------------------------
(* The converters and calls explored *)

Schema(name, full_name, fds, grp) ==
  [name |-> name, full_name |-> full_name, fields_by_name |-> fds,
   oneofs_by_name |-> [g \in {grp[n] : n \in DOMAIN grp} \ {"none"} |->
                         {n \in DOMAIN grp : grp[n] = g}]]

\* position of a name in the declaration order
IndexIn(order, x) == CHOOSE i \in DOMAIN order : order[i] = x

\* The oneofs of a class are declared in the order of their first member:
\* a field is in g2 only if a field before it is in g1 (the other naming of
\* the same grouping differs by the names of the oneofs alone).
Canonical(grp) ==
  \A n \in DOMAIN grp :
    grp[n] = "g2" =>
      \E m \in DOMAIN grp :
        IndexIn(FieldOrder, m) < IndexIn(FieldOrder, n) /\ grp[m] = "g1"

\* message classes of singular scalar fields, each field in a oneof or not
OneofSchemas(name, full_name, types) ==
  UNION { {Schema(name, full_name,
                  [n \in D |-> FD(n, LABEL_OPTIONAL, ty[n], NoMessage)], grp) :
             ty \in [D -> types],
             grp \in {g \in [D -> OneofNames \cup {"none"}] : Canonical(g)}} :
          D \in SUBSET FieldNames }

\* the shapes a field can have: label, declared type, nested message type
Shapes ==
  { <<LABEL_OPTIONAL, TYPE_INT32, NoMessage>>, <<LABEL_OPTIONAL, TYPE_FLOAT, NoMessage>>,
    <<LABEL_OPTIONAL, TYPE_ENUM, NoMessage>>,
    <<LABEL_OPTIONAL, TYPE_MESSAGE, "Topping">>, <<LABEL_OPTIONAL, TYPE_MESSAGE, "Syrup">>,
    <<LABEL_OPTIONAL, TYPE_MESSAGE, AnyType>>,
    <<LABEL_REPEATED, TYPE_INT32, NoMessage>>,
    <<LABEL_REPEATED, TYPE_MESSAGE, "Topping">>, <<LABEL_REPEATED, TYPE_MESSAGE, AnyType>>,
    <<LABEL_REPEATED, TYPE_MESSAGE, "Pair">>,
    <<LABEL_REPEATED, TYPE_MESSAGE, "IntEntry">>,
    <<LABEL_REPEATED, TYPE_MESSAGE, "ToppingEntry">>,
    <<LABEL_REPEATED, TYPE_MESSAGE, "AnyEntry">> }

\* message classes with the single field a, of any shape
ShapeSchemas(name, full_name) ==
  {Schema(name, full_name, [n \in {"a"} |-> FD(n, s[1], s[2], s[3])],
          [n \in {"a"} |-> "none"]) : s \in Shapes}

EmptySchema(name, full_name) == Schema(name, full_name, <<>>, <<>>)

\* the decorated methods of a converter class, in definition order
HandlerLists ==
  {fns \in SeqsUpTo(HandlerCatalog, MaxHandlers) :
     \A i, j \in DOMAIN fns : i # j => fns[i] # fns[j]}

NoInstance == [full_name |-> "none", fields |-> <<>>]

Init ==
  /\ \/ /\ pb_class_from \in OneofSchemas("Src", "pkg.Src", {TYPE_INT32, TYPE_FLOAT})
        /\ pb_class_to \in OneofSchemas("Dst", "pkg.Dst", {TYPE_INT32}) \cup {pb_class_from}
        /\ field_names_to_ignore \in {<<>>, <<"a">>, <<"b">>, <<"a", "b">>}
        /\ class_functions \in HandlerLists
     \/ /\ pb_class_from \in ShapeSchemas("Src", "pkg.Src")
        /\ pb_class_to \in ShapeSchemas("Dst", "pkg.Dst")
                           \cup {EmptySchema("Dst", "pkg.Dst"), pb_class_from}
        /\ field_names_to_ignore \in {<<>>, <<"a">>}
        /\ class_functions \in {fns \in HandlerLists : Len(fns) <= 1}
  /\ function_convert_field_names = <<>>
  /\ convert_functions = <<>>
  /\ unconverted_fields = <<>>
  /\ state = "Unvalidated"
  /\ error = NoError
  /\ pc = "idle"
  /\ src_proto = NoInstance
  /\ dest_proto = NoInstance
  /\ todo = <<>>
  /\ written = {}
  /\ func_idx = 1
  /\ calls = <<>>
  /\ result = NoInstance

-----------------------------------------------------------------------------
(* Actions *)

config == <<pb_class_from, pb_class_to, field_names_to_ignore, class_functions>>
analysis == <<function_convert_field_names, convert_functions, unconverted_fields, state>>

\* ProtoConverter.__init__ with _assert_all_fields_are_handled
Construct ==
  /\ state = "Unvalidated"
  /\ LET fns == CollectConvertFunctions(class_functions)
         names == CollectFieldNames(class_functions)
         unhandled == _get_unhandled_fields(DescriptorFields(pb_class_from),
                                            pb_class_to.fields_by_name,
                                            field_names_to_ignore)
         from_error == IF DOMAIN pb_class_from.oneofs_by_name # {}
                         THEN _validate_oneof_field_multi_mapping(
                                pb_class_from, pb_class_to, field_names_to_ignore)
                         ELSE NoError
         to_error == IF DOMAIN pb_class_to.oneofs_by_name # {}
                       THEN _validate_oneof_field_multi_mapping(
                              pb_class_to, pb_class_from, field_names_to_ignore)
                       ELSE NoError
         remaining == Range(unhandled) \ Range(names)
     IN /\ convert_functions' = fns
        /\ function_convert_field_names' = names
        /\ unconverted_fields' = unhandled
        /\ error' = IF from_error # NoError THEN from_error
                    ELSE IF to_error # NoError THEN to_error
                    ELSE IF remaining # {} THEN UnhandledFieldsError(remaining)
                    ELSE NoError
        /\ state' = IF error' = NoError THEN "Ready" ELSE "Failed"
  /\ UNCHANGED <<config, pc, src_proto, dest_proto, todo, written, func_idx, calls, result>>

\* A faulty variant: the type check is left out.
TypeMatchesAlways(x, pb) == TRUE

\* the negation of the condition of line 123: src_type != expected_src_type
TypeMatches(x, pb) == x.full_name = pb.full_name

\* ProtoConverter.convert, lines 121-128: the type check and the fresh
\* destination instance
Convert(x) ==
  /\ state = "Ready"
  /\ pc \in {"idle", "returned", "raised"}
  /\ src_proto' = x
  /\ written' = {}
  /\ func_idx' = 1
  /\ calls' = <<>>
  /\ result' = NoInstance
  /\ IF ~ TypeMatches(x, pb_class_from)
       THEN /\ error' = TypeMismatchError(x.full_name, pb_class_from.full_name)
            /\ pc' = "raised"
            /\ dest_proto' = NoInstance
            /\ todo' = <<>>
       ELSE /\ error' = NoError
            /\ pc' = "running"
            /\ dest_proto' = FreshInstance(pb_class_to)
            /\ todo' = ListFields(x)
  /\ UNCHANGED <<config, analysis>>

\* one iteration of the loop of _auto_convert
AutoConvert ==
  /\ pc = "running"
  /\ todo # <<>>
  /\ LET n == Head(todo) IN
       IF n \in Range(field_names_to_ignore) \/ n \in Range(unconverted_fields)
         THEN /\ todo' = Tail(todo)
              /\ UNCHANGED <<pc, error, dest_proto, written>>
       ELSE IF n \notin DOMAIN pb_class_to.fields_by_name
         THEN /\ pc' = "raised"
              /\ error' = [type |-> "KeyError", field |-> n]
              /\ UNCHANGED <<todo, dest_proto, written>>
       ELSE LET copy == CopyField(pb_class_from.fields_by_name[n],
                                  pb_class_to.fields_by_name[n],
                                  src_proto.fields[n], dest_proto.fields[n])
            IN IF copy.raised # "none"
                 THEN /\ pc' = "raised"
                      /\ error' = [type |-> copy.raised, field |-> n]
                      /\ UNCHANGED <<todo, dest_proto, written>>
                 ELSE /\ dest_proto' = [dest_proto EXCEPT !.fields =
                                          SetField(@, pb_class_to, n, copy.value)]
                      /\ written' = written \cup {n}
                      /\ todo' = Tail(todo)
                      /\ UNCHANGED <<pc, error>>
  /\ UNCHANGED <<config, analysis, src_proto, func_idx, calls, result>>

\* one iteration of the loop over self._convert_functions: the user
\* function returns
CallUserFunc ==
  /\ pc = "running"
  /\ todo = <<>>
  /\ func_idx <= Len(convert_functions)
  /\ LET user_func == convert_functions[func_idx] IN
       /\ calls' = Append(calls, [name |-> user_func.name, saw |-> dest_proto.fields])
       /\ dest_proto' = [dest_proto EXCEPT !.fields =
                           UserFuncWrites(user_func.name, user_func.convert_field_names,
                                          @, pb_class_to)]
  /\ func_idx' = func_idx + 1
  /\ UNCHANGED <<config, analysis, pc, error, src_proto, todo, written, result>>

\* the user function raises: the exception propagates out of convert
UserFuncRaises ==
  /\ pc = "running"
  /\ todo = <<>>
  /\ func_idx <= Len(convert_functions)
  /\ calls' = Append(calls, [name |-> convert_functions[func_idx].name,
                             saw |-> dest_proto.fields])
  /\ pc' = "raised"
  /\ error' = [type |-> "UserError", by |-> convert_functions[func_idx].name]
  /\ UNCHANGED <<config, analysis, src_proto, dest_proto, todo, written, func_idx, result>>

\* return dest_proto
Return ==
  /\ pc = "running"
  /\ todo = <<>>
  /\ func_idx > Len(convert_functions)
  /\ pc' = "returned"
  /\ result' = dest_proto
  /\ UNCHANGED <<config, analysis, error, src_proto, dest_proto, todo, written,
                 func_idx, calls>>

Next ==
  \/ Construct
  \/ \E x \in Instances(pb_class_from) \cup {ForeignInstance} : Convert(x)
  \/ AutoConvert
  \/ CallUserFunc
  \/ UserFuncRaises
  \/ Return

Spec == Init /\ [][Next]_vars

-----------------------------------------------------------------------------
(* Vocabulary of the properties *)

SrcFieldNames == DOMAIN pb_class_from.fields_by_name
Ignored == Range(field_names_to_ignore)

\* the field names the decorated methods of the class are registered for
Handled ==
  UNION {Range(class_functions[i].convert_field_names) : i \in DOMAIN class_functions}

Kind(fd) ==
  IF fd.type = TYPE_MESSAGE THEN "message"
  ELSE IF fd.type = TYPE_ENUM THEN "enum"
  ELSE "scalar"

\* Rules (1)-(5) of the compatibility analysis, with rule (2) comparing
\* the scalar/enum/message kind.
RECURSIVE RulesByKind(_, _)
RulesByKind(src, dest_by_name) ==
  IF src.name \notin DOMAIN dest_by_name THEN FALSE
  ELSE LET dest == dest_by_name[src.name] IN
    IF src.label # dest.label \/ Kind(src) # Kind(dest) THEN FALSE
    ELSE IF _is_map_field(src)
      THEN /\ RulesByKind(FieldsOfType(src.message_type)["key"],
                          FieldsOfType(dest.message_type))
           /\ RulesByKind(FieldsOfType(src.message_type)["value"],
                          FieldsOfType(dest.message_type))
    ELSE IF Kind(src) = "message"
      THEN CASE src.message_type = AnyType /\ dest.message_type = AnyType -> TRUE
             [] src.message_type = AnyType /\ dest.message_type # AnyType -> FALSE
             [] src.message_type # AnyType /\ dest.message_type = AnyType -> TRUE
             [] OTHER -> src.message_type = dest.message_type
    ELSE TRUE

\* The same rules with rule (2) comparing the declared field type.
RECURSIVE RulesByDeclaredType(_, _)
RulesByDeclaredType(src, dest_by_name) ==
  IF src.name \notin DOMAIN dest_by_name THEN FALSE
  ELSE LET dest == dest_by_name[src.name] IN
    IF src.label # dest.label \/ src.type # dest.type THEN FALSE
    ELSE IF _is_map_field(src)
      THEN /\ RulesByDeclaredType(FieldsOfType(src.message_type)["key"],
                                  FieldsOfType(dest.message_type))
           /\ RulesByDeclaredType(FieldsOfType(src.message_type)["value"],
                                  FieldsOfType(dest.message_type))
    ELSE IF Kind(src) = "message"
      THEN CASE src.message_type = AnyType /\ dest.message_type = AnyType -> TRUE
             [] src.message_type = AnyType /\ dest.message_type # AnyType -> FALSE
             [] src.message_type # AnyType /\ dest.message_type = AnyType -> TRUE
             [] OTHER -> src.message_type = dest.message_type
    ELSE TRUE

\* the source fields the analysis finds auto-convertible
AutoConvertible ==
  {n \in SrcFieldNames :
     _is_src_field_auto_convertible(pb_class_from.fields_by_name[n],
                                    pb_class_to.fields_by_name)}

\* the source fields neither ignored nor auto-convertible nor handled
Remaining == ((SrcFieldNames \ Ignored) \ AutoConvertible) \ Handled

\* Oneof g of pb fans out against other: two members that are not ignored
\* are fields of other and do not share a oneof of other.
FansOut(pb, other, g) ==
  \E m1, m2 \in pb.oneofs_by_name[g] \ Ignored :
    /\ m1 # m2
    /\ {m1, m2} \subseteq DOMAIN other.fields_by_name
    /\ ~ \E h \in DOMAIN other.oneofs_by_name : {m1, m2} \subseteq other.oneofs_by_name[h]

SomeFanOut ==
  \/ \E g \in DOMAIN pb_class_from.oneofs_by_name : FansOut(pb_class_from, pb_class_to, g)
  \/ \E g \in DOMAIN pb_class_to.oneofs_by_name : FansOut(pb_class_to, pb_class_from, g)

IsOneofError == error.type = "NotImplementedError" /\ error.kind = "oneof"
IsUnhandledError == error.type = "NotImplementedError" /\ error.kind = "unhandled"

Constructed == state # "Unvalidated"

-----------------------------------------------------------------------------
(* C1 *)

\* C1, as stated: whenever the remaining set is non-empty, construction
\* fails with a NotImplementedError whose message lists exactly the
\* remaining fields.
C1_AlwaysEnumerates ==
  (Constructed /\ Remaining # {}) =>
    /\ state = "Failed"
    /\ IsUnhandledError
    /\ error.fields = Remaining

\* C1, amended: whenever the remaining set is non-empty, construction fails
\* with a NotImplementedError; the message lists exactly the remaining
\* fields unless a oneof fans out, in which case the oneof error, raised
\* first, is the one reported.
C1_FailsAndEnumeratesUnlessOneof ==
  (Constructed /\ Remaining # {}) =>
    /\ state = "Failed"
    /\ error.type = "NotImplementedError"
    /\ IF SomeFanOut THEN IsOneofError
       ELSE IsUnhandledError /\ error.fields = Remaining

C1_Witness ==
  /\ state = "Failed"
  /\ IsUnhandledError
  /\ error.fields = {"a", "b"}
  /\ Ignored = {}

-----------------------------------------------------------------------------
(* C2 *)

\* C2, as stated: for a successfully constructed converter the ignored,
\* handled and auto-convertible names are pairwise disjoint and their union
\* is exactly the set of source field names.  The sets are read in the way
\* most favourable to the claim: names the source lacks are left out, and
\* an ignored field is not counted as auto-convertible.
C2_Partition ==
  state = "Ready" =>
    LET ignored == Ignored \cap SrcFieldNames
        handled == Handled \cap SrcFieldNames
        auto == AutoConvertible \ Ignored
    IN /\ ignored \cap handled = {}
       /\ ignored \cap auto = {}
       /\ handled \cap auto = {}
       /\ ignored \cup handled \cup auto = SrcFieldNames

\* C2, amended: for a successfully constructed converter every source field
\* name is ignored, handled or auto-convertible (the three sets cover the
\* source fields; they may overlap and may name fields the source lacks).
C2_Cover ==
  state = "Ready" => SrcFieldNames \subseteq Ignored \cup Handled \cup AutoConvertible

C2_Witness ==
  /\ state = "Ready"
  /\ SrcFieldNames = {"a", "b"}
  /\ "a" \in Handled \cap AutoConvertible
  /\ "b" \in Handled \ AutoConvertible

-----------------------------------------------------------------------------
(* C3, C9 *)

\* the message class an oneof error names
NamedClass == IF error.proto = pb_class_from.name THEN pb_class_from ELSE pb_class_to

C9_HandledOrIgnoredOneofPasses ==
  (Constructed /\ IsOneofError) =>
    \E m \in NamedClass.oneofs_by_name[error.oneof] : m \notin Ignored \cup Handled

-----------------------------------------------------------------------------
(* C4, C5 *)

CallNames == [i \in DOMAIN calls |-> calls[i].name]
DefinitionOrder == [i \in DOMAIN class_functions |-> class_functions[i].name]
Rank(name) == CHOOSE i \in DOMAIN AttrOrder : AttrOrder[i] = name

\* the source fields of the current call the automatic copy is to copy
ToCopy == {n \in Range(ListFields(src_proto)) : n \notin Ignored /\ n \in AutoConvertible}

\* no function is called while the automatic copy is under way, the first
\* function called sees every auto-converted field set, and no auto-copied
\* value is left in a field a function writes
HandlersAfterAutoCopy ==
  /\ (pc = "running" /\ todo # <<>>) => calls = <<>>
  /\ calls # <<>> => \A n \in ToCopy : Populated(calls[1].saw[n])
  /\ pc = "returned" =>
       \A n \in DOMAIN result.fields \cap Handled :
         result.fields[n].kind \in {"handler", "unset"}

C5_TypeMismatch ==
  pc # "idle" =>
    IF src_proto.full_name # pb_class_from.full_name
      THEN /\ pc = "raised"
           /\ error = [type |-> "TypeError", actual |-> src_proto.full_name,
                       expected |-> pb_class_from.full_name]
           /\ dest_proto = NoInstance
           /\ result = NoInstance
           /\ written = {}
           /\ calls = <<>>
      ELSE "actual" \notin DOMAIN error

C5_Witness ==
  /\ pc = "raised"
  /\ error.type = "TypeError"
  /\ "actual" \in DOMAIN error
  /\ error.actual = "pkg.Other"
  /\ error.expected = "pkg.Src"
  /\ Len(convert_functions) > 0

-----------------------------------------------------------------------------
(* C6, C7, C8 *)

\* every boxed type name in the value is known to the registry
Resolvable(v) ==
  CASE v.kind = "any" -> TypeName(v) \in SymbolDatabase
    [] v.kind = "list" ->
         \A i \in DOMAIN v.items :
           v.items[i].kind = "any" => TypeName(v.items[i]) \in SymbolDatabase
    [] v.kind = "map" ->
         \A k \in DOMAIN v.entries :
           v.entries[k].kind = "any" => TypeName(v.entries[k]) \in SymbolDatabase
    [] OTHER -> TRUE

\* C6: a converter from a type to itself, with no ignore list and no
\* decorated methods, constructs, and convert returns an instance equal to
\* its argument when the registry resolves every boxed type name.
C6_RoundTrip ==
  (pb_class_to = pb_class_from /\ field_names_to_ignore = <<>> /\ class_functions = <<>>) =>
    /\ Constructed => state = "Ready"
    /\ (/\ pc \in {"returned", "raised"}
        /\ src_proto.full_name = pb_class_from.full_name
        /\ \A n \in DOMAIN src_proto.fields : Resolvable(src_proto.fields[n]))
       => pc = "returned" /\ result = src_proto

StrategyApplicable(src_fd, dest_fd) ==
  IF _is_map_field(src_fd) THEN _is_map_field(dest_fd)
  ELSE IF src_fd.label = LABEL_REPEATED
    THEN dest_fd.label = LABEL_REPEATED /\ ~ _is_map_field(dest_fd)
  ELSE IF src_fd.type = TYPE_MESSAGE
    THEN dest_fd.label # LABEL_REPEATED /\ dest_fd.type = TYPE_MESSAGE
  ELSE dest_fd.label # LABEL_REPEATED /\ dest_fd.type = src_fd.type

\* C8: on a successfully constructed converter the automatic copy never
\* fails: the destination has, for every field the copy reaches, a field of
\* the same name whose shape fits the strategy chosen.
C8_AutoCopyNeverFails ==
  /\ (pc = "running" /\ todo # <<>>
        /\ Head(todo) \notin Ignored \cup Range(unconverted_fields)) =>
       /\ Head(todo) \in DOMAIN pb_class_to.fields_by_name
       /\ StrategyApplicable(pb_class_from.fields_by_name[Head(todo)],
                             pb_class_to.fields_by_name[Head(todo)])
  /\ pc = "raised" => "field" \notin DOMAIN error

-----------------------------------------------------------------------------
(* C10 *)

\* C10: the automatic copy writes at most one member of any destination
\* oneof, and no value it wrote is cleared before the functions run (every
\* source instance has at most one member of each source oneof set).
C10_OneMemberPerDestOneof ==
  (\A o \in DOMAIN pb_class_from.oneofs_by_name :
     src_proto.full_name = pb_class_from.full_name =>
       Cardinality({n \in pb_class_from.oneofs_by_name[o] :
                      Populated(src_proto.fields[n])}) <= 1)
  => /\ \A g \in DOMAIN pb_class_to.oneofs_by_name :
          Cardinality(written \cap pb_class_to.oneofs_by_name[g]) <= 1
     /\ (pc = "running" /\ calls = <<>>) =>
          \A n \in written : Populated(dest_proto.fields[n])

C10_Witness ==
  /\ pc = "returned"
  /\ \E g \in DOMAIN pb_class_to.oneofs_by_name :
       /\ pb_class_to.oneofs_by_name[g] = {"a", "b"}
       /\ Cardinality(written \cap pb_class_to.oneofs_by_name[g]) = 1
  /\ \E o \in DOMAIN pb_class_from.oneofs_by_name :
       pb_class_from.oneofs_by_name[o] = {"a", "b"}
  /\ pb_class_to # pb_class_from

====
